---- MODULE Spec2Model ----
(***************************************************************************)
(* Model of two classes of the EDA application:                            *)
(*   - project::SES_AddComponents, the "add components" state of the       *)
(*     schematic editor's finite state machine                             *)
(*     (src/src/project/schematics/fsm/ses_addcomponents.cpp), together    *)
(*     with the undo stack it drives and the parent state machine that     *)
(*     calls entry(), process() and exit();                                *)
(*   - library::FootprintPad (src/libs/librepcb/library/pkg/               *)
(*     footprintpad.cpp), a value object with validation and               *)
(*     serialization.                                                      *)
(* Two specifications: Spec (the state machine) and PadSpec (the pad).     *)
(***************************************************************************)
EXTENDS Integers, Sequences, FiniteSets, TLC

(***************************************************************************)
(* Bounds of the model.                                                    *)
(***************************************************************************)
\* a symbol variant of the library has at most MaxItems items
MaxItems == 2
\* number of generic components in the project's library
NumGenComps == 2
\* number of generic component instances created in one run
MaxInst == 2
\* scene positions 1..NumPos (grid points)
NumPos == 2
\* a pad's coordinates are 0..MaxCoord, its width and height 0..MaxLength and
\* its drill diameter -1..MaxLength-1
MaxCoord == 1
MaxLength == 2

VARIABLES
    \* ---- SES_AddComponents (members, constructor at lines 46-52)
    mIsUndoCmdActive,           \* bool
    mAddGenCompDialog,          \* TRUE: the dialog object exists (non-null)
    mLastAngle,                 \* degrees, modulo a full turn
    mGenComp,                   \* 0 (nullptr) or a library generic component
    mGenCompSymbVar,            \* 0 (nullptr) or a symbol variant of mGenComp
    mCurrentSymbVarItem,        \* 0 (nullptr) or the item's index in the variant
    mCurrentSymbolToPlace,      \* symbol instance record, .null = TRUE: nullptr
    mCurrentSymbolEditCommand,  \* edit command record, .null = TRUE: nullptr
    \* ---- the project's undo stack
    undoActive,                 \* a command group is open
    undoGroup,                  \* the commands of the open group
    stackMisuse,                \* the last handler called the stack in the wrong state
    \* ---- circuit, editor user interface, process
    instCount,                  \* generic component instances created so far
    actionChecked,              \* actionToolAddComponent->isChecked()
    fault,                      \* "none", or why the process has crashed
    \* ---- parent state machine
    active,                     \* SES_AddComponents is the current state
    leaving,                    \* process() returned ForceLeaveState: exit() is due
    lastCall,                   \* the last handler call: operation, event, inputs
    ret,                        \* what that call returned
    \* ---- FootprintPad scenario
    pad,                        \* the pad object (record of its members)
    padItem,                    \* the registered graphics item (.null: none)
    root,                       \* the S-expression node serialize() wrote to
    loaded,                     \* the pad constructed from root (.exc: it threw)
    padPc                       \* position in the pad scenario

sesVars == <<mIsUndoCmdActive, mAddGenCompDialog, mLastAngle, mGenComp,
             mGenCompSymbVar, mCurrentSymbVarItem, mCurrentSymbolToPlace,
             mCurrentSymbolEditCommand>>
envVars == <<undoActive, undoGroup, stackMisuse, instCount,
             actionChecked, fault>>
fsmVars == <<sesVars, envVars, active, leaving, lastCall, ret>>
padVars == <<pad, padItem, root, loaded, padPc>>
vars == <<fsmVars, padVars>>

Positions == 1..NumPos

(***************************************************************************)
(* Values.                                                                 *)
(***************************************************************************)
NullSym == [null |-> TRUE, inst |-> 0, item |-> 0, pos |-> 0]
Sym(inst, item, pos) == [null |-> FALSE, inst |-> inst, item |-> item, pos |-> pos]
NullCmd == [null |-> TRUE, pos |-> 0]
EditCmd(pos) == [null |-> FALSE, pos |-> pos]

\* commands appended to the undo stack
CmdGenCompInstAdd(inst, gc, sv) ==
    [kind |-> "CmdGenCompInstAdd", inst |-> inst, gc |-> gc, sv |-> sv,
     item |-> 0, pos |-> 0]
CmdSymbolInstanceAdd(inst, item, pos) ==
    [kind |-> "CmdSymbolInstanceAdd", inst |-> inst, gc |-> 0, sv |-> 0,
     item |-> item, pos |-> pos]
CmdSymbolInstanceEdit(sym, cmd) ==
    [kind |-> "CmdSymbolInstanceEdit", inst |-> sym.inst, gc |-> 0, sv |-> 0,
     item |-> sym.item, pos |-> cmd.pos]

\* Angle arithmetic, modulo a full turn
AngleAdd(a, d) == (a + d) % 360

(***************************************************************************)
(* The project's library.  UUID 0 is the null UUID.  Generic components    *)
(* 1..NumGenComps are in the library, NumGenComps+1 is not.  Each has the  *)
(* symbol variants 1..MaxItems+1, variant v with v-1 items (variant 1 has  *)
(* no symbol); MaxItems+2 is the UUID of no variant.                       *)
(***************************************************************************)
UnknownGenComp == NumGenComps + 1
UnknownSymbVar == MaxItems + 2
getGenComp(uuid) == IF uuid \in 1..NumGenComps THEN uuid ELSE 0
getSymbolVariantByUuid(uuid) == IF uuid \in 1..(MaxItems + 1) THEN uuid ELSE 0
NumItems(sv) == sv - 1
firstItem(sv) == IF NumItems(sv) >= 1 THEN 1 ELSE 0
getNextItem(sv, item) == IF item >= 1 /\ item < NumItems(sv) THEN item + 1 ELSE 0

(***************************************************************************)
(* The handlers are operators on a record of the whole program state (the  *)
(* object's members, the undo stack, the user interface), with two more    *)
(* fields for the control flow inside one handler: exc, the exception that *)
(* is propagating ("none": no exception), and rv, the value returned;      *)
(* raised is the first exception thrown during the call, caught or not.    *)
(***************************************************************************)
Self ==
    [mIsUndoCmdActive |-> mIsUndoCmdActive,
     mAddGenCompDialog |-> mAddGenCompDialog,
     mLastAngle |-> mLastAngle,
     mGenComp |-> mGenComp,
     mGenCompSymbVar |-> mGenCompSymbVar,
     mCurrentSymbVarItem |-> mCurrentSymbVarItem,
     mCurrentSymbolToPlace |-> mCurrentSymbolToPlace,
     mCurrentSymbolEditCommand |-> mCurrentSymbolEditCommand,
     undoActive |-> undoActive,
     undoGroup |-> undoGroup,
     stackMisuse |-> FALSE,
     instCount |-> instCount,
     actionChecked |-> actionChecked,
     fault |-> fault,
     exc |-> "none",
     raised |-> "none",
     rv |-> "none"]

\* raised keeps the first exception thrown during the handler call
Throw(s, e) == [s EXCEPT !.exc = e, !.raised = IF @ = "none" THEN e ELSE @]
Return(s, v) == [s EXCEPT !.rv = v]
\* the process crashes (a failed Q_ASSERT of a debug build, a null dereference)
Crash(s, why) == [s EXCEPT !.fault = why, !.rv = "crashed"]
Ok(s) == s.exc = "none" /\ s.fault = "none"

(***************************************************************************)
(* The undo stack (class UndoStack).  Every operation either succeeds or   *)
(* throws an exception and leaves the stack as it was; it throws when it   *)
(* is called in the wrong state (beginCommand while a command group is     *)
(* open, the others while none is), and such a call is recorded in         *)
(* stackMisuse for the handler call it happens in.  "fails" is the environment's choice of a failure (a       *)
(* command's redo or undo throws).                                         *)
(***************************************************************************)
undoBeginCommand(s, fails) ==
    IF s.undoActive THEN [Throw(s, "RuntimeError") EXCEPT !.stackMisuse = TRUE]
    ELSE IF fails THEN Throw(s, "Exception")
    ELSE [s EXCEPT !.undoActive = TRUE, !.undoGroup = <<>>]

undoAppendToCommand(s, cmd, fails) ==
    IF ~s.undoActive THEN [Throw(s, "LogicError") EXCEPT !.stackMisuse = TRUE]
    ELSE IF fails THEN Throw(s, "Exception")
    ELSE [s EXCEPT !.undoGroup = Append(@, cmd)]

undoEndCommand(s, fails) ==
    IF ~s.undoActive THEN [Throw(s, "LogicError") EXCEPT !.stackMisuse = TRUE]
    ELSE IF fails THEN Throw(s, "Exception")
    ELSE [s EXCEPT !.undoActive = FALSE, !.undoGroup = <<>>]

undoAbortCommand(s, fails) ==
    IF ~s.undoActive THEN [Throw(s, "LogicError") EXCEPT !.stackMisuse = TRUE]
    ELSE IF fails THEN Throw(s, "Exception")
    ELSE [s EXCEPT !.undoActive = FALSE, !.undoGroup = <<>>]

(***************************************************************************)
(* Inputs of one handler call that the environment chooses:                *)
(*   fail       the undo stack call (named by its source line) that        *)
(*              throws, "none" if none does;                               *)
(*   abortFails UndoStack::abortCommand throws;                            *)
(*   dlg        the chooser dialog: "reject" (not accepted), "loadfail"    *)
(*              (the selected file cannot be opened) or "ok", with the     *)
(*              selected generic component dgc and symbol variant dsv;     *)
(*   deref      what the dereference of a null mGenComp at line 332 does:  *)
(*              "crash", or "continue" with a null symbol variant.         *)
(***************************************************************************)
Fails(env, site) == env.fail = site

(***************************************************************************)
(* SES_AddComponents::abortCommand (lines 377-404); rv is its result.      *)
(***************************************************************************)
abortCommand(s, showErrMsgBox, env) ==
    LET s1 == [s EXCEPT !.mCurrentSymbolEditCommand = NullCmd]
        s2 == IF s1.mIsUndoCmdActive
              THEN LET a == undoAbortCommand(s1, env.abortFails)
                   IN  IF a.exc = "none"
                       THEN [a EXCEPT !.mIsUndoCmdActive = FALSE] ELSE a
              ELSE s1
    IN  IF s2.exc # "none"
        THEN [s2 EXCEPT !.exc = "none", !.rv = "false"]
        ELSE [s2 EXCEPT !.mGenComp = 0,
                        !.mGenCompSymbVar = 0,
                        !.mCurrentSymbVarItem = 0,
                        !.mCurrentSymbolToPlace = NullSym,
                        !.rv = "true"]

(***************************************************************************)
(* SES_AddComponents::startAddingComponent (lines 281-375), in three       *)
(* parts: the chooser dialog (294-327), the library lookup of given UUIDs  *)
(* (328-333), and the rest (335-374).  pos is the cursor position.         *)
(***************************************************************************)
chooseWithDialog(s, env) ==
    LET s1 == [s EXCEPT !.mAddGenCompDialog = TRUE]
    IN  IF env.dlg = "reject" THEN Throw(s1, "UserCanceled")
        ELSE IF env.dlg = "loadfail" THEN Throw(s1, "RuntimeError")
        ELSE LET s2 == [s1 EXCEPT !.mGenComp = getGenComp(env.dgc)]
             IN  IF s2.mGenComp = 0 THEN Throw(s2, "RuntimeError")
                 ELSE [s2 EXCEPT !.mGenCompSymbVar = getSymbolVariantByUuid(env.dsv)]

lookupGiven(s, genComp, symbVar, env) ==
    LET s1 == [s EXCEPT !.mGenComp = getGenComp(genComp)]
    IN  IF s1.mGenComp = 0
        THEN \* line 332 dereferences the null mGenComp
             IF env.deref = "crash" THEN Crash(s1, "null mGenComp:332")
             ELSE [s1 EXCEPT !.mGenCompSymbVar = 0]
        ELSE [s1 EXCEPT !.mGenCompSymbVar = getSymbolVariantByUuid(symbVar)]

addFirstSymbol(s, pos, env) ==
    IF s.mGenComp = 0 THEN Throw(s, "LogicError")
    ELSE IF s.mGenCompSymbVar = 0 THEN Throw(s, "LogicError")
    ELSE
    LET s1 == undoBeginCommand(s, Fails(env, "begin:349"))
    IN  IF s1.exc # "none" THEN s1 ELSE
    LET s2 == [s1 EXCEPT !.mIsUndoCmdActive = TRUE, !.instCount = @ + 1]
        inst == s2.instCount
        s3 == undoAppendToCommand(s2,
                  CmdGenCompInstAdd(inst, s2.mGenComp, s2.mGenCompSymbVar),
                  Fails(env, "append:355"))
    IN  IF s3.exc # "none" THEN s3 ELSE
    LET s4 == [s3 EXCEPT !.mCurrentSymbVarItem = firstItem(s3.mGenCompSymbVar)]
    IN  IF s4.mCurrentSymbVarItem = 0 THEN Throw(s4, "RuntimeError") ELSE
    LET s5 == undoAppendToCommand(s4,
                  CmdSymbolInstanceAdd(inst, s4.mCurrentSymbVarItem, pos),
                  Fails(env, "append:367"))
    IN  IF s5.exc # "none" THEN s5 ELSE
        [s5 EXCEPT !.mCurrentSymbolToPlace = Sym(inst, s5.mCurrentSymbVarItem, pos),
                   !.mCurrentSymbolEditCommand = EditCmd(pos)]

startAddingComponent(s, genComp, symbVar, pos, env) ==
    LET s1 == IF genComp = 0 \/ symbVar = 0
              THEN chooseWithDialog(s, env)
              ELSE lookupGiven(s, genComp, symbVar, env)
    IN  IF ~Ok(s1) THEN s1 ELSE addFirstSymbol(s1, pos, env)

(***************************************************************************)
(* SES_AddComponents::entry (lines 121-154).  Both catch blocks do the     *)
(* same (the message box of the second one has no effect on the state).    *)
(***************************************************************************)
\* faulty variant, for testing the property: the type is compared with the wrong constant as well
entryAccepts_AlsoAbort(ev) == ev.type \in {"StartAddComponent", "AbortCommand"}
entryAccepts(ev) == ev.type = "StartAddComponent"

entryFailed(s, env) ==
    LET s1 == [s EXCEPT !.exc = "none"]
        s2 == IF s1.mIsUndoCmdActive THEN abortCommand(s1, FALSE, env) ELSE s1
    IN  [s2 EXCEPT !.mAddGenCompDialog = FALSE, !.rv = "false"]

\* faulty variant, for testing the property: mLastAngle is not reset (line 129 missing)
entry_KeepsAngle(s, ev, env) ==
    IF ~entryAccepts(ev) THEN Return(s, "false")
    ELSE IF s.mIsUndoCmdActive /\ env.debugBuild THEN Crash(s, "Q_ASSERT:128")
    ELSE
    LET s2 == startAddingComponent(s, ev.gc, ev.sv, ev.pos, env)
    IN  IF s2.fault # "none" THEN s2
        ELSE IF s2.exc # "none" THEN entryFailed(s2, env)
        ELSE [s2 EXCEPT !.actionChecked = TRUE, !.rv = "true"]

entry(s, ev, env) ==
    IF ~entryAccepts(ev) THEN Return(s, "false")
    ELSE IF s.mIsUndoCmdActive /\ env.debugBuild THEN Crash(s, "Q_ASSERT:128")
    ELSE
    LET s1 == [s EXCEPT !.mLastAngle = 0]
        s2 == startAddingComponent(s1, ev.gc, ev.sv, ev.pos, env)
    IN  IF s2.fault # "none" THEN s2
        ELSE IF s2.exc # "none" THEN entryFailed(s2, env)
        ELSE [s2 EXCEPT !.actionChecked = TRUE, !.rv = "true"]

(***************************************************************************)
(* SES_AddComponents::exit (lines 156-165).                                *)
(***************************************************************************)
\* faulty variant, for testing the property: the result of abortCommand is not looked at
exit_IgnoresAbortResult(s, env) ==
    [abortCommand(s, TRUE, env) EXCEPT !.mAddGenCompDialog = FALSE,
                                       !.actionChecked = FALSE,
                                       !.rv = "true"]

exit(s, env) ==
    LET a == abortCommand(s, TRUE, env)
    IN  IF a.rv = "false" THEN a
        ELSE [a EXCEPT !.mAddGenCompDialog = FALSE,
                       !.actionChecked = FALSE,
                       !.rv = "true"]

(***************************************************************************)
(* SES_AddComponents::processSceneEvent (lines 171-279).                   *)
(***************************************************************************)
\* faulty variant, for testing the property: the next symbol is created where the last one was created
placeNextSymbol_AtOldPosition(s, pos, env) ==
    IF s.mCurrentSymbolToPlace.null THEN Crash(s, "null deref:220") ELSE
    LET old == s.mCurrentSymbolToPlace.pos
        s1 == undoAppendToCommand(s,
                  CmdSymbolInstanceAdd(s.mCurrentSymbolToPlace.inst,
                                       s.mCurrentSymbVarItem, old),
                  Fails(env, "append:222"))
    IN  IF s1.exc # "none" THEN s1 ELSE
        [s1 EXCEPT !.mCurrentSymbolToPlace =
                       Sym(s.mCurrentSymbolToPlace.inst, s.mCurrentSymbVarItem, old),
                   !.mCurrentSymbolEditCommand = EditCmd(old),
                   !.rv = "ForceStayInState"]

\* lines 216-231: there is a next symbol of the same component to place
placeNextSymbol(s, pos, env) ==
    IF s.mCurrentSymbolToPlace.null THEN Crash(s, "null deref:220") ELSE
    LET s1 == undoAppendToCommand(s,
                  CmdSymbolInstanceAdd(s.mCurrentSymbolToPlace.inst,
                                       s.mCurrentSymbVarItem, pos),
                  Fails(env, "append:222"))
    IN  IF s1.exc # "none" THEN s1 ELSE
        [s1 EXCEPT !.mCurrentSymbolToPlace =
                       Sym(s.mCurrentSymbolToPlace.inst, s.mCurrentSymbVarItem, pos),
                   !.mCurrentSymbolEditCommand = EditCmd(pos),
                   !.rv = "ForceStayInState"]

\* lines 232-242: all symbols placed, start adding the next component
placeNextComponent(s, pos, env) ==
    IF s.mGenComp = 0 THEN Crash(s, "null deref:235") ELSE
    LET genCompUuid == s.mGenComp
        symbVarUuid == s.mGenCompSymbVar
        s1 == undoEndCommand(s, Fails(env, "end:237"))
    IN  IF s1.exc # "none" THEN s1 ELSE
    LET s2 == [s1 EXCEPT !.mIsUndoCmdActive = FALSE]
        s3 == [abortCommand(s2, FALSE, env) EXCEPT !.rv = "none"]
        s4 == startAddingComponent(s3, genCompUuid, symbVarUuid, pos, env)
    IN  IF ~Ok(s4) THEN s4 ELSE Return(s4, "ForceStayInState")

\* lines 204-214: place the current symbol finally
placeCurrentSymbol(s, pos, env) ==
    LET cmd == [s.mCurrentSymbolEditCommand EXCEPT !.pos = pos]
        s1 == undoAppendToCommand(s,
                  CmdSymbolInstanceEdit(s.mCurrentSymbolToPlace, cmd),
                  Fails(env, "append:206"))
    IN  IF s1.exc # "none" THEN s1 ELSE
    LET s2 == [s1 EXCEPT !.mCurrentSymbolEditCommand = NullCmd]
        s3 == undoEndCommand(s2, Fails(env, "end:208"))
    IN  IF s3.exc # "none" THEN s3 ELSE
    LET s4 == [s3 EXCEPT !.mIsUndoCmdActive = FALSE]
        s5 == undoBeginCommand(s4, Fails(env, "begin:210"))
    IN  IF s5.exc # "none" THEN s5 ELSE
    LET s6 == [s5 EXCEPT !.mIsUndoCmdActive = TRUE]
    IN  IF s6.mGenCompSymbVar = 0 THEN Crash(s6, "null deref:214") ELSE
        [s6 EXCEPT !.mCurrentSymbVarItem = getNextItem(s.mGenCompSymbVar, @)]

\* lines 200-251: the left mouse button
leftButton(s, pos, env) ==
    IF s.mCurrentSymbolEditCommand.null THEN Crash(s, "null deref:205")
    ELSE
    LET s1 == placeCurrentSymbol(s, pos, env)
        s2 == IF ~Ok(s1) THEN s1
              ELSE IF s1.mCurrentSymbVarItem # 0
                   THEN placeNextSymbol(s1, pos, env)
                   ELSE placeNextComponent(s1, pos, env)
    IN  IF s2.fault # "none" THEN s2
        ELSE IF s2.exc # "none"
        THEN [abortCommand([s2 EXCEPT !.exc = "none"], FALSE, env)
                 EXCEPT !.rv = "ForceLeaveState"]
        ELSE s2

\* lines 253-257: the right mouse button
rightButton(s) ==
    LET s1 == [s EXCEPT !.mLastAngle = AngleAdd(@, 270)]
    IN  IF s1.mCurrentSymbolEditCommand.null THEN Crash(s1, "null deref:256")
        ELSE Return(s1, "ForceStayInState")

\* lines 181-190: with a null edit command the Q_ASSERT of line 187 aborts a
\* debug build and line 188 dereferences the null pointer in a release build
mouseMove(s, pos) ==
    IF s.mCurrentSymbolEditCommand.null
    THEN Crash(s, "null edit command:187")
    ELSE [s EXCEPT !.mCurrentSymbolEditCommand.pos = pos,
                   !.rv = "PassToParentState"]

processSceneEvent(s, ev, env) ==
    IF ~s.mIsUndoCmdActive THEN Return(s, "PassToParentState")
    ELSE IF ev.q = "GraphicsSceneMouseMove" THEN mouseMove(s, ev.pos)
    ELSE IF ev.q \in {"GraphicsSceneMouseDoubleClick", "GraphicsSceneMousePress"}
    THEN IF ev.button = "LeftButton" THEN leftButton(s, ev.pos, env)
         ELSE IF ev.button = "RightButton" THEN rightButton(s)
         ELSE Return(s, "PassToParentState")
    ELSE IF ev.q # "GraphicsSceneWheel" THEN Return(s, "ForceStayInState")
    ELSE Return(s, "PassToParentState")

(***************************************************************************)
(* SES_AddComponents::process (lines 62-119).                              *)
(***************************************************************************)
\* lines 70-85 and 89-106: abort the current command and start again
restart(s, genComp, symbVar, pos, env) ==
    LET a == abortCommand(s, TRUE, env)
    IN  IF a.rv = "false" THEN Return(a, "PassToParentState") ELSE
    LET s1 == [a EXCEPT !.mLastAngle = 0, !.rv = "none"]
        s2 == startAddingComponent(s1, genComp, symbVar, pos, env)
    IN  IF s2.fault # "none" THEN s2
        ELSE IF s2.exc # "none"
        THEN [s2 EXCEPT !.exc = "none", !.rv = "PassToParentState"]
        ELSE Return(s2, "ForceStayInState")

\* lines 108-113
rotate(s, angle) ==
    IF s.mCurrentSymbolEditCommand.null \/ s.mCurrentSymbolToPlace.null
    THEN Crash(s, "null deref:109")
    ELSE Return(s, "ForceStayInState")

process(s, ev, env) ==
    IF ev.type = "AbortCommand"
    THEN IF s.mAddGenCompDialog THEN restart(s, 0, 0, ev.pos, env)
         ELSE Return(s, "PassToParentState")
    ELSE IF ev.type = "StartAddComponent" THEN restart(s, ev.gc, ev.sv, ev.pos, env)
    ELSE IF ev.type = "Edit_RotateCW" THEN rotate(s, 90)
    ELSE IF ev.type = "Edit_RotateCCW" THEN rotate(s, 270)
    ELSE IF ev.type = "SchematicSceneEvent" THEN processSceneEvent(s, ev, env)
    ELSE Return(s, "PassToParentState")

(***************************************************************************)
(* Events (SEE_Base and its subclasses) and the environment's choices.     *)
(***************************************************************************)
Ev(type, gc, sv, q, button, pos) ==
    [type |-> type, gc |-> gc, sv |-> sv, q |-> q, button |-> button, pos |-> pos]
NullEvent == Ev("null", 0, 0, "none", "none", 0)
\* an event of a type the state does not handle (the default case)
OtherEvent == Ev("Edit_Copy", 0, 0, "none", "none", 0)
RotateEvents == {Ev(t, 0, 0, "none", "none", 0) : t \in {"Edit_RotateCW", "Edit_RotateCCW"}}
\* commands of the editor arrive with the cursor at position 1
AbortEvent == Ev("AbortCommand", 0, 0, "none", "none", 1)
\* StartAddComponent with a null UUID opens the chooser dialog
DialogStartEvents ==
    {Ev("StartAddComponent", u[1], u[2], "none", "none", 1) :
        u \in {<<0, 0>>, <<1, 0>>, <<0, 2>>}}
GivenStartEvents ==
    {Ev("StartAddComponent", gc, sv, "none", "none", 1) :
        gc \in 1..UnknownGenComp, sv \in 1..UnknownSymbVar}
LeftEvents ==
    {Ev("SchematicSceneEvent", 0, 0, q, "LeftButton", p) :
        q \in {"GraphicsSceneMouseDoubleClick", "GraphicsSceneMousePress"},
        p \in Positions}
OtherButtonEvents ==
    {Ev("SchematicSceneEvent", 0, 0, q, b, 1) :
        q \in {"GraphicsSceneMouseDoubleClick", "GraphicsSceneMousePress"},
        b \in {"RightButton", "MiddleButton"}}
MoveEvents ==
    {Ev("SchematicSceneEvent", 0, 0, "GraphicsSceneMouseMove", "NoButton", p) :
        p \in Positions}
PlainSceneEvents ==
    {Ev("SchematicSceneEvent", 0, 0, q, "NoButton", 0) :
        q \in {"GraphicsSceneWheel", "GraphicsSceneMouseRelease"}}

StartSites == {"begin:349", "append:355", "append:367"}
ClickSites == {"append:206", "end:208", "begin:210", "append:222", "end:237"}
Env(fail, abortFails, dlg, dgc, dsv, deref, debugBuild) ==
    [fail |-> fail, abortFails |-> abortFails, dlg |-> dlg, dgc |-> dgc,
     dsv |-> dsv, deref |-> deref, debugBuild |-> debugBuild]
NoEnv == Env("none", FALSE, "ok", 0, 0, "crash", FALSE)
AbortEnvs == {Env("none", a, "ok", 0, 0, "crash", FALSE) : a \in BOOLEAN}
\* the undo stack fails at one of the sites, and abortCommand fails or not
FailEnvs(sites, gc, sv) ==
    {Env(f, a, "ok", gc, sv, "crash", FALSE) : f \in sites, a \in BOOLEAN}

(***************************************************************************)
(* The inputs of the handlers: an event and the environment's choices.     *)
(* Choices that cannot change what the handler does are not listed twice:  *)
(* a failing call of the undo stack is combined with one selection (a      *)
(* generic component of the library and its variant with the most          *)
(* symbols) and one position only.                                         *)
(***************************************************************************)
FullGenComp == CHOOSE gc \in 1..NumGenComps : \A other \in 1..NumGenComps : gc <= other
FullSymbVar == MaxItems + 1
EmptySymbVar == CHOOSE sv \in 1..(MaxItems + 1) : NumItems(sv) = 0
DialogEnvs ==
    {Env("none", FALSE, d, 0, 0, "crash", FALSE) : d \in {"reject", "loadfail"}}
    \cup {Env("none", FALSE, "ok", gc, sv, "crash", FALSE) :
            gc \in 1..UnknownGenComp, sv \in 1..UnknownSymbVar}
    \cup {Env("none", TRUE, "ok", FullGenComp, EmptySymbVar, "crash", FALSE)}
    \cup FailEnvs(StartSites, FullGenComp, FullSymbVar)
StartEvent(gc, sv) == Ev("StartAddComponent", gc, sv, "none", "none", 1)
GivenInputs ==
    (GivenStartEvents \X {NoEnv})
    \cup ({StartEvent(FullGenComp, FullSymbVar)} \X FailEnvs(StartSites, 0, 0))
    \cup ({StartEvent(FullGenComp, EmptySymbVar)}
            \X {Env("none", TRUE, "ok", 0, 0, "crash", FALSE)})
    \cup ({StartEvent(UnknownGenComp, sv) : sv \in 1..UnknownSymbVar}
            \X {Env("none", FALSE, "ok", 0, 0, "continue", FALSE)})
\* every outcome of the dialog after StartAddComponent without UUIDs, the
\* main ones after the events that open the dialog as well
DialogInputs ==
    ({StartEvent(0, 0)} \X DialogEnvs)
    \cup ((DialogStartEvents \cup {AbortEvent})
            \X ({Env("none", FALSE, d, 0, 0, "crash", FALSE) : d \in {"reject", "loadfail"}}
                 \cup {Env("none", FALSE, "ok", FullGenComp, sv, "crash", FALSE) :
                         sv \in 1..UnknownSymbVar}
                 \cup FailEnvs({"append:355"}, FullGenComp, FullSymbVar)))
StartInputs == {in \in DialogInputs : in[1] # AbortEvent} \cup GivenInputs
\* entry() with the assertion of line 128 compiled in (a debug build) or not
EntryInputs ==
    {<<in[1], [in[2] EXCEPT !.debugBuild = d]>> : in \in StartInputs, d \in BOOLEAN}
    \cup (({NullEvent, OtherEvent, AbortEvent} \cup RotateEvents \cup MoveEvents
             \cup PlainSceneEvents) \X {NoEnv})
LeftPress(p) == Ev("SchematicSceneEvent", 0, 0, "GraphicsSceneMousePress", "LeftButton", p)
ProcessInputs ==
    StartInputs
    \cup ({StartEvent(FullGenComp, FullSymbVar), AbortEvent} \X AbortEnvs)
    \cup {in \in DialogInputs : in[1] = AbortEvent}
    \cup (LeftEvents \X {NoEnv})
    \cup ({LeftPress(1)} \X FailEnvs(ClickSites \cup StartSites, 0, 0))
    \cup ((RotateEvents \cup OtherButtonEvents \cup MoveEvents \cup PlainSceneEvents
             \cup {OtherEvent}) \X {NoEnv})

(***************************************************************************)
(* The parent state machine (SES_FSM) calls entry() when another state is  *)
(* left for this one, process() for every event while this state is the    *)
(* current one, and exit() when the state is to be left: at any time, and  *)
(* at once after process() returned ForceLeaveState.  The state stays the  *)
(* current one when exit() returns false.                                  *)
(***************************************************************************)
\* a handler call as the parent sees it: the operation, the event's type (of a
\* scene event also the QEvent's type and the mouse button), and the first
\* exception thrown during the call
Call(op, ev, raised) ==
    [op |-> op, type |-> ev.type, q |-> ev.q, button |-> ev.button, raised |-> raised]
NoCall == Call("none", NullEvent, "none")

\* the program state after a handler call that ended in record r
Commit(r) ==
    /\ mIsUndoCmdActive' = r.mIsUndoCmdActive
    /\ mAddGenCompDialog' = r.mAddGenCompDialog
    /\ mLastAngle' = r.mLastAngle
    /\ mGenComp' = r.mGenComp
    /\ mGenCompSymbVar' = r.mGenCompSymbVar
    /\ mCurrentSymbVarItem' = r.mCurrentSymbVarItem
    /\ mCurrentSymbolToPlace' = r.mCurrentSymbolToPlace
    /\ mCurrentSymbolEditCommand' = r.mCurrentSymbolEditCommand
    /\ undoActive' = r.undoActive
    /\ undoGroup' = r.undoGroup
    /\ stackMisuse' = r.stackMisuse
    /\ instCount' = r.instCount
    /\ actionChecked' = r.actionChecked
    /\ fault' = r.fault
    /\ ret' = r.rv
    /\ UNCHANGED padVars

Running == fault = "none"

Entry(ev, env) ==
    /\ Running /\ ~active
    /\ \E r \in {entry(Self, ev, env)} :
           /\ r.instCount <= MaxInst
           /\ Commit(r)
           /\ lastCall' = Call("entry", ev, r.raised)
           /\ active' = (r.rv = "true")
           /\ leaving' = FALSE

Process(ev, env) ==
    /\ Running /\ active /\ ~leaving
    /\ \E r \in {process(Self, ev, env)} :
           /\ r.instCount <= MaxInst
           /\ Commit(r)
           /\ lastCall' = Call("process", ev, r.raised)
           /\ active' = TRUE
           /\ leaving' = (r.rv = "ForceLeaveState")

Exit(env) ==
    /\ Running /\ active
    /\ \E r \in {exit(Self, env)} :
           /\ Commit(r)
           /\ lastCall' = Call("exit", NullEvent, r.raised)
           /\ active' = (r.rv # "true")
           /\ leaving' = FALSE

EntryCall == \E in \in EntryInputs : Entry(in[1], in[2])
ProcessCall == \E in \in ProcessInputs : Process(in[1], in[2])
ExitCall == \E env \in AbortEnvs : Exit(env)

(***************************************************************************)
(* library::FootprintPad.  A pad is the record of its members; UUID 0 is   *)
(* the null UUID.  Lengths, angles, UUIDs and points are written to an     *)
(* S-expression as tokens that read back as the same value; the strings of *)
(* the shape and of the board side are those of the pad's own functions.   *)
(***************************************************************************)
Uuids == 0..1
Coords == 0..MaxCoord
Points == [x : Coords, y : Coords]
Rotations == {0, 90}
Shapes == {"ROUND", "RECT", "OCTAGON"}
BoardSides == {"TOP", "BOTTOM", "THT"}
Lengths == 0..MaxLength
Drills == -1..(MaxLength - 1)

\* FootprintPad::FootprintPad(padUuid, pos, rot, shape, width, height,
\* drillDiameter, side), lines 44-51
FootprintPad(padUuid, pos, rot, shape, width, height, drillDiameter, side) ==
    [mPackagePadUuid |-> padUuid, mPosition |-> pos, mRotation |-> rot,
     mShape |-> shape, mWidth |-> width, mHeight |-> height,
     mDrillDiameter |-> drillDiameter, mBoardSide |-> side]
Pads ==
    [mPackagePadUuid : Uuids, mPosition : Points, mRotation : Rotations,
     mShape : Shapes, mWidth : Lengths, mHeight : Lengths,
     mDrillDiameter : Drills, mBoardSide : BoardSides]
DefaultPad == FootprintPad(0, [x |-> 0, y |-> 0], 0, "ROUND", 0, 0, 0, "TOP")

\* faulty variant, for testing the property: a drill diameter of zero (an SMT pad) is rejected
checkAttributesValidity_DrillPositive(p) ==
    IF p.mPackagePadUuid = 0 THEN FALSE
    ELSE IF p.mWidth <= 0 THEN FALSE
    ELSE IF p.mHeight <= 0 THEN FALSE
    ELSE IF p.mDrillDiameter <= 0 THEN FALSE
    ELSE TRUE

\* lines 236-243
checkAttributesValidity(p) ==
    IF p.mPackagePadUuid = 0 THEN FALSE
    ELSE IF p.mWidth <= 0 THEN FALSE
    ELSE IF p.mHeight <= 0 THEN FALSE
    ELSE IF p.mDrillDiameter < 0 THEN FALSE
    ELSE TRUE

\* lines 249-285; "#throw": the function throws RuntimeError
stringToShape(str) ==
    IF str = "round" THEN "ROUND"
    ELSE IF str = "rect" THEN "RECT"
    ELSE IF str = "octagon" THEN "OCTAGON"
    ELSE "#throw"
\* faulty variant, for testing the property: the octagon is written with the rectangle's string
shapeToString_OctagonAsRect(shape) ==
    CASE shape = "ROUND" -> "round"
      [] shape = "RECT" -> "rect"
      [] shape = "OCTAGON" -> "rect"
      [] OTHER -> ""
shapeToString(shape) ==
    CASE shape = "ROUND" -> "round"
      [] shape = "RECT" -> "rect"
      [] shape = "OCTAGON" -> "octagon"
      [] OTHER -> ""
stringToBoardSide(str) ==
    IF str = "top" THEN "TOP"
    ELSE IF str = "bottom" THEN "BOTTOM"
    ELSE IF str = "tht" THEN "THT"
    ELSE "#throw"
boardSideToString(side) ==
    CASE side = "TOP" -> "top"
      [] side = "BOTTOM" -> "bottom"
      [] side = "THT" -> "tht"
      [] OTHER -> ""

\* lines 78-86
getLayerName(p) ==
    CASE p.mBoardSide = "TOP" -> "top_cu"
      [] p.mBoardSide = "BOTTOM" -> "bot_cu"
      [] p.mBoardSide = "THT" -> "brd_pad_tht"
      [] OTHER -> ""

\* lines 97-120: the outline (empty unless width and height are positive),
\* and for a THT pad the drill hole subtracted from it
toQPainterPathPx(p) ==
    [outline |-> IF p.mWidth > 0 /\ p.mHeight > 0 THEN p.mShape ELSE "empty",
     width |-> IF p.mWidth > 0 /\ p.mHeight > 0 THEN p.mWidth ELSE 0,
     height |-> IF p.mWidth > 0 /\ p.mHeight > 0 THEN p.mHeight ELSE 0,
     hole |-> IF p.mBoardSide = "THT" THEN p.mDrillDiameter ELSE -1]

(***************************************************************************)
(* S-expressions (class SExpression): a list node is the sequence of its   *)
(* children; a child is a token (name "") or a named list of tokens.  A    *)
(* token keeps the type it was written as, a string its text.              *)
(***************************************************************************)
Tok(kind, str, num) == [kind |-> kind, str |-> str, num |-> num]
Child(name, toks) == [name |-> name, toks |-> toks]
appendToken(node, tok) == Append(node, Child("", <<tok>>))
appendTokenChild(node, name, tok) == Append(node, Child(name, <<tok>>))
\* Point::serializeToDomElement(name)
serializePoint(name, x, y) == Child(name, <<Tok("length", "", x), Tok("length", "", y)>>)
appendChild(node, child) == Append(node, child)
hasChildByPath(node, name) == \E i \in 1..Len(node) : node[i].name = name
getChildByPath(node, name) ==
    node[CHOOSE i \in 1..Len(node) :
            node[i].name = name /\ \A j \in 1..(i - 1) : node[j].name # name]
\* a child that holds n tokens of the kind
holds(child, kind, n) ==
    Len(child.toks) = n /\ \A i \in 1..n : child.toks[i].kind = kind

\* FootprintPad::serialize (lines 189-200): the node written, exc "none", or
\* the node as it was and the exception
serialize(p, node) ==
    IF ~checkAttributesValidity(p) THEN [exc |-> "LogicError", node |-> node]
    ELSE
    LET n1 == appendToken(node, Tok("uuid", "", p.mPackagePadUuid))
        n2 == appendTokenChild(n1, "side", Tok("string", boardSideToString(p.mBoardSide), 0))
        n3 == appendTokenChild(n2, "shape", Tok("string", shapeToString(p.mShape), 0))
        n4 == appendChild(n3, serializePoint("pos", p.mPosition.x, p.mPosition.y))
        n5 == appendTokenChild(n4, "rot", Tok("angle", "", p.mRotation))
        n6 == appendChild(n5, serializePoint("size", p.mWidth, p.mHeight))
        n7 == appendTokenChild(n6, "drill", Tok("length", "", p.mDrillDiameter))
    IN  [exc |-> "none", node |-> n7]

\* what a file holds that was written without the check of the attributes
unchecked(p) ==
    <<Child("", <<Tok("uuid", "", p.mPackagePadUuid)>>),
      Child("side", <<Tok("string", boardSideToString(p.mBoardSide), 0)>>),
      Child("shape", <<Tok("string", shapeToString(p.mShape), 0)>>),
      serializePoint("pos", p.mPosition.x, p.mPosition.y),
      Child("rot", <<Tok("angle", "", p.mRotation)>>),
      serializePoint("size", p.mWidth, p.mHeight),
      Child("drill", <<Tok("length", "", p.mDrillDiameter)>>)>>

\* the node can be read: every child the constructor asks for is there and
\* holds tokens of the type asked for
readable(node) ==
    /\ Len(node) >= 1 /\ holds(node[1], "uuid", 1)
    /\ \A name \in {"pos", "rot", "side", "shape", "drill", "size"} :
          hasChildByPath(node, name)
    /\ holds(getChildByPath(node, "pos"), "length", 2)
    /\ holds(getChildByPath(node, "rot"), "angle", 1)
    /\ holds(getChildByPath(node, "side"), "string", 1)
    /\ holds(getChildByPath(node, "shape"), "string", 1)
    /\ holds(getChildByPath(node, "drill"), "length", 1)
    /\ holds(getChildByPath(node, "size"), "length", 2)

\* FootprintPad::FootprintPad(const SExpression&) (lines 53-67): the pad
\* read and exc "none", or the exception thrown
fromSExpression(node) ==
    IF ~readable(node) THEN [exc |-> "RuntimeError", pad |-> DefaultPad]
    ELSE
    LET side == stringToBoardSide(getChildByPath(node, "side").toks[1].str)
        shape == stringToShape(getChildByPath(node, "shape").toks[1].str)
        p == FootprintPad(node[1].toks[1].num,
                 [x |-> getChildByPath(node, "pos").toks[1].num,
                  y |-> getChildByPath(node, "pos").toks[2].num],
                 getChildByPath(node, "rot").toks[1].num,
                 shape,
                 getChildByPath(node, "size").toks[1].num,
                 getChildByPath(node, "size").toks[2].num,
                 getChildByPath(node, "drill").toks[1].num,
                 side)
    IN  IF side = "#throw" \/ shape = "#throw"
        THEN [exc |-> "RuntimeError", pad |-> DefaultPad]
        ELSE IF ~checkAttributesValidity(p) THEN [exc |-> "LogicError", pad |-> p]
        ELSE [exc |-> "none", pad |-> p]

\* FootprintPad::operator== (lines 206-217)
PadEquals(a, b) ==
    IF a.mPackagePadUuid # b.mPackagePadUuid THEN FALSE
    ELSE IF a.mPosition # b.mPosition THEN FALSE
    ELSE IF a.mRotation # b.mRotation THEN FALSE
    ELSE IF a.mShape # b.mShape THEN FALSE
    ELSE IF a.mWidth # b.mWidth THEN FALSE
    ELSE IF a.mHeight # b.mHeight THEN FALSE
    ELSE IF a.mDrillDiameter # b.mDrillDiameter THEN FALSE
    ELSE IF a.mBoardSide # b.mBoardSide THEN FALSE
    ELSE TRUE

(***************************************************************************)
(* The registered graphics item (FootprintPadGraphicsItem) keeps what it   *)
(* was sent last; it is created from the pad it is registered at.          *)
(***************************************************************************)
NoItem == [null |-> TRUE, pos |-> DefaultPad.mPosition, rot |-> 0,
           shape |-> toQPainterPathPx(DefaultPad), layer |-> ""]
ItemOf(p) == [null |-> FALSE, pos |-> p.mPosition, rot |-> p.mRotation,
              shape |-> toQPainterPathPx(p), layer |-> getLayerName(p)]

\* the pad scenario: a pad is constructed and changed ("built"), then
\* serialized ("serialized", or "threw") and constructed again from the node
\* written ("loaded"), or constructed from a file's node ("parsed")
NotLoaded == [exc |-> "unset", pad |-> DefaultPad]
Building == padPc = "built"

\* lines 125-171
SetPosition(pos) ==
    /\ Building
    /\ pad' = [pad EXCEPT !.mPosition = pos]
    /\ padItem' = IF padItem.null THEN padItem ELSE [padItem EXCEPT !.pos = pad'.mPosition]
    /\ UNCHANGED <<root, loaded, padPc, fsmVars>>
SetPackagePadUuid(uuid) ==
    /\ Building
    /\ pad' = [pad EXCEPT !.mPackagePadUuid = uuid]
    /\ UNCHANGED <<padItem, root, loaded, padPc, fsmVars>>
SetRotation(rot) ==
    /\ Building
    /\ pad' = [pad EXCEPT !.mRotation = rot]
    /\ padItem' = IF padItem.null THEN padItem ELSE [padItem EXCEPT !.rot = pad'.mRotation]
    /\ UNCHANGED <<root, loaded, padPc, fsmVars>>
SetShape(shape) ==
    /\ Building
    /\ pad' = [pad EXCEPT !.mShape = shape]
    /\ padItem' = IF padItem.null THEN padItem
                  ELSE [padItem EXCEPT !.shape = toQPainterPathPx(pad')]
    /\ UNCHANGED <<root, loaded, padPc, fsmVars>>
SetWidth(width) ==
    /\ Building
    /\ pad' = [pad EXCEPT !.mWidth = width]
    /\ padItem' = IF padItem.null THEN padItem
                  ELSE [padItem EXCEPT !.shape = toQPainterPathPx(pad')]
    /\ UNCHANGED <<root, loaded, padPc, fsmVars>>
SetHeight(height) ==
    /\ Building
    /\ pad' = [pad EXCEPT !.mHeight = height]
    /\ padItem' = IF padItem.null THEN padItem
                  ELSE [padItem EXCEPT !.shape = toQPainterPathPx(pad')]
    /\ UNCHANGED <<root, loaded, padPc, fsmVars>>
SetDrillDiameter(diameter) ==
    /\ Building
    /\ pad' = [pad EXCEPT !.mDrillDiameter = diameter]
    /\ padItem' = IF padItem.null THEN padItem
                  ELSE [padItem EXCEPT !.shape = toQPainterPathPx(pad')]
    /\ UNCHANGED <<root, loaded, padPc, fsmVars>>
SetBoardSide(side) ==
    /\ Building
    /\ pad' = [pad EXCEPT !.mBoardSide = side]
    /\ padItem' = IF padItem.null THEN padItem
                  ELSE [padItem EXCEPT !.layer = getLayerName(pad'),
                                       !.shape = toQPainterPathPx(pad')]
    /\ UNCHANGED <<root, loaded, padPc, fsmVars>>

\* lines 177-187
RegisterGraphicsItem ==
    /\ Building /\ padItem.null
    /\ padItem' = ItemOf(pad)
    /\ UNCHANGED <<pad, root, loaded, padPc, fsmVars>>
UnregisterGraphicsItem ==
    /\ Building /\ ~padItem.null
    /\ padItem' = NoItem
    /\ UNCHANGED <<pad, root, loaded, padPc, fsmVars>>

\* operator=, lines 219-230: the eight members are copied from rhs; the
\* registered graphics item is neither replaced nor told.  The scenario
\* ends with the assignment ("assigned"), from a few other pads.
AssignSources ==
    {DefaultPad}
    \cup {FootprintPad(1, [x |-> MaxCoord, y |-> 0], 90, "RECT", MaxLength, 1, 0, side) :
            side \in {"BOTTOM", "THT"}}
Assign(rhs) ==
    /\ Building
    /\ pad' = [pad EXCEPT !.mPackagePadUuid = rhs.mPackagePadUuid,
                          !.mPosition = rhs.mPosition,
                          !.mRotation = rhs.mRotation,
                          !.mShape = rhs.mShape,
                          !.mWidth = rhs.mWidth,
                          !.mHeight = rhs.mHeight,
                          !.mDrillDiameter = rhs.mDrillDiameter,
                          !.mBoardSide = rhs.mBoardSide]
    /\ padPc' = "assigned"
    /\ UNCHANGED <<padItem, root, loaded, fsmVars>>

\* serialize() to an empty list node
Serialize ==
    /\ Building
    /\ \E r \in {serialize(pad, <<>>)} :
          /\ root' = r.node
          /\ padPc' = IF r.exc = "none" THEN "serialized" ELSE "threw"
    /\ UNCHANGED <<pad, padItem, loaded, fsmVars>>
\* the constructor from the node that serialize() wrote
Load ==
    /\ padPc = "serialized"
    /\ loaded' = fromSExpression(root)
    /\ padPc' = "loaded"
    /\ UNCHANGED <<pad, padItem, root, fsmVars>>
\* the constructor from the node of a file that holds the pad's attributes,
\* valid or not
Parse ==
    /\ Building
    /\ root' = unchecked(pad)
    /\ loaded' = fromSExpression(root')
    /\ padPc' = "parsed"
    /\ UNCHANGED <<pad, padItem, fsmVars>>

PadInit ==
    /\ pad \in Pads
    /\ padItem = NoItem
    /\ root = <<>>
    /\ loaded = NotLoaded
    /\ padPc = "built"

PadSetter ==
    \/ \E pos \in Points : SetPosition(pos)
    \/ \E uuid \in Uuids : SetPackagePadUuid(uuid)
    \/ \E rot \in Rotations : SetRotation(rot)
    \/ \E shape \in Shapes : SetShape(shape)
    \/ \E width \in Lengths : SetWidth(width)
    \/ \E height \in Lengths : SetHeight(height)
    \/ \E diameter \in Drills : SetDrillDiameter(diameter)
    \/ \E side \in BoardSides : SetBoardSide(side)
PadNext ==
    \/ PadSetter
    \/ RegisterGraphicsItem
    \/ UnregisterGraphicsItem
    \/ \E rhs \in AssignSources : Assign(rhs)
    \/ Serialize
    \/ Load
    \/ Parse

(***************************************************************************)
(* The state after the constructor (lines 46-52), with an empty undo stack.*)
(***************************************************************************)
FsmInit ==
    /\ mIsUndoCmdActive = FALSE
    /\ mAddGenCompDialog = FALSE
    /\ mLastAngle = 0
    /\ mGenComp = 0
    /\ mGenCompSymbVar = 0
    /\ mCurrentSymbVarItem = 0
    /\ mCurrentSymbolToPlace = NullSym
    /\ mCurrentSymbolEditCommand = NullCmd
    /\ undoActive = FALSE
    /\ undoGroup = <<>>
    /\ stackMisuse = FALSE
    /\ instCount = 0
    /\ actionChecked = FALSE
    /\ fault = "none"
    /\ active = FALSE
    /\ leaving = FALSE
    /\ lastCall = NoCall
    /\ ret = "none"

\* the pad takes no part in Spec, the state machine none in PadSpec
PadIdle ==
    /\ pad = DefaultPad /\ padItem = NoItem /\ root = <<>> /\ loaded = NotLoaded
    /\ padPc = "idle"

Init == FsmInit /\ PadIdle
Next == EntryCall \/ ProcessCall \/ ExitCall
Spec == Init /\ [][Next]_vars

PadSpecInit == PadInit /\ FsmInit
PadSpec == PadSpecInit /\ [][PadNext]_vars

(***************************************************************************)
(* Properties of SES_AddComponents, checked under Spec.                    *)
(***************************************************************************)
\* the state a handler leaves, without the per-call record of stack misuse
progVars == <<sesVars, undoActive, undoGroup, instCount, actionChecked, fault>>
Placing == mIsUndoCmdActive /\ ~mCurrentSymbolEditCommand.null

\* the flag follows the undo stack's open command group (a part of C1)
FlagTracksGroup == mIsUndoCmdActive <=> undoActive

\* C1 (as claimed): between handler calls mIsUndoCmdActive is true exactly
\* when a command group is open, the undo stack is never called in the wrong
\* state (beginCommand while a group is open, endCommand or abortCommand
\* while none is), and the assertion at the start of entry() never fails.
C1_UndoFlagConsistent ==
    /\ mIsUndoCmdActive <=> undoActive
    /\ ~stackMisuse
    /\ fault # "Q_ASSERT:128"

\* C2: entry() with a null event or an event that is not StartAddComponent
\* returns false and changes nothing.
C2_EntryRejectsOtherEvents ==
    [][\A in \in EntryInputs :
          (in[1].type # "StartAddComponent" /\ Entry(in[1], in[2]))
          => (ret' = "false" /\ ~active' /\ UNCHANGED progVars)]_vars
C2_Witness ==
    /\ lastCall.op = "entry" /\ lastCall.type = "AbortCommand" /\ ret = "false"
    /\ mLastAngle # 0

\* C3: when entry() returns true, one command group is open and flagged, it
\* holds the add-component-instance command of the chosen generic component
\* and variant and the add-symbol command of the variant's first item, the
\* symbol to place and its edit command exist, mLastAngle is 0 and the
\* toolbar action is checked.
ChosenGenComp(in) == IF in[1].gc = 0 \/ in[1].sv = 0 THEN in[2].dgc ELSE in[1].gc
ChosenSymbVar(in) == IF in[1].gc = 0 \/ in[1].sv = 0 THEN in[2].dsv ELSE in[1].sv
C3_EntryTrueStartsPlacing ==
    [][\A in \in EntryInputs :
          (Entry(in[1], in[2]) /\ ret' = "true")
          => /\ mIsUndoCmdActive' /\ undoActive' /\ active'
             /\ mGenComp' = ChosenGenComp(in) /\ mGenCompSymbVar' = ChosenSymbVar(in)
             /\ undoGroup' = <<CmdGenCompInstAdd(instCount', ChosenGenComp(in),
                                                 ChosenSymbVar(in)),
                               CmdSymbolInstanceAdd(instCount', 1, in[1].pos)>>
             /\ mCurrentSymbVarItem' = 1
             /\ mCurrentSymbolToPlace' = Sym(instCount', 1, in[1].pos)
             /\ ~mCurrentSymbolEditCommand'.null
             /\ mLastAngle' = 0
             /\ actionChecked']_vars
C3_Witness ==
    /\ lastCall.op = "entry" /\ ret = "true" /\ active
    /\ instCount = 2 /\ mGenCompSymbVar = MaxItems + 1 /\ mAddGenCompDialog

\* C4 (as claimed): when entry() returns false for a StartAddComponent event,
\* no command group is left open, the flag is false and the dialog is gone.
C4_EntryFalseLeavesNothingOpen ==
    (lastCall.op = "entry" /\ lastCall.type = "StartAddComponent" /\ ret = "false")
    => (~undoActive /\ ~mIsUndoCmdActive /\ ~mAddGenCompDialog)

\* C5: exit() returns true exactly when abortCommand succeeded; then no group
\* is open, the flag is false, the five pointers are null, the dialog is
\* destroyed and the toolbar action unchecked; when it returns false the
\* dialog and the toolbar action are unchanged.
C5_ExitResult ==
    [][\A env \in AbortEnvs :
          Exit(env)
          => /\ ret' \in {"true", "false"}
             /\ (ret' = "true") <=> (abortCommand(Self, TRUE, env).rv = "true")
             /\ (ret' = "true") <=> ~active'
             /\ (ret' = "true") =>
                   /\ ~undoActive' /\ ~mIsUndoCmdActive'
                   /\ mGenComp' = 0 /\ mGenCompSymbVar' = 0
                   /\ mCurrentSymbVarItem' = 0
                   /\ mCurrentSymbolToPlace'.null
                   /\ mCurrentSymbolEditCommand'.null
                   /\ ~mAddGenCompDialog' /\ ~actionChecked'
             /\ (ret' = "false") => UNCHANGED <<mAddGenCompDialog, actionChecked>>]_vars
C5_Witness ==
    /\ lastCall.op = "exit" /\ ret = "true" /\ lastCall.raised = "none"
    /\ ~active /\ instCount = 2
C5_WitnessFalse ==
    lastCall.op = "exit" /\ ret = "false" /\ active /\ mAddGenCompDialog

\* C6: without a failing operation, a left button press while item k of an
\* N-item variant is attached to the cursor returns ForceStayInState; for
\* k < N it attaches item k+1 (getNextItem) of the same component instance at
\* the click position, for k = N it starts a new instance of the same generic
\* component and variant, without the dialog, with its first item attached
\* and a command group open.
C6_LeftPressPlacesInOrder ==
    [][\A ev \in LeftEvents :
          (Placing /\ Process(ev, NoEnv))
          => LET k == mCurrentSymbVarItem
                 n == NumItems(mGenCompSymbVar)
             IN  /\ ret' = "ForceStayInState" /\ lastCall'.raised = "none"
                 /\ 1 <= k /\ k <= n /\ mCurrentSymbolToPlace.item = k
                 /\ mIsUndoCmdActive' /\ undoActive'
                 /\ ~mCurrentSymbolEditCommand'.null
                 /\ mGenComp' = mGenComp /\ mGenCompSymbVar' = mGenCompSymbVar
                 /\ mAddGenCompDialog' = mAddGenCompDialog
                 /\ mCurrentSymbVarItem' = IF k < n THEN k + 1 ELSE 1
                 /\ mCurrentSymbolToPlace' =
                        Sym(IF k < n THEN mCurrentSymbolToPlace.inst ELSE instCount + 1,
                            mCurrentSymbVarItem', ev.pos)
                 /\ undoGroup'[Len(undoGroup')] =
                        CmdSymbolInstanceAdd(mCurrentSymbolToPlace'.inst,
                                             mCurrentSymbVarItem', ev.pos)
                 /\ instCount' = IF k < n THEN instCount ELSE instCount + 1]_vars
\* all items of the largest variant placed one after the other, the next
\* instance started by the last press
C6_Witness ==
    /\ lastCall.op = "process" /\ lastCall.button = "LeftButton"
    /\ lastCall.raised = "none" /\ ret = "ForceStayInState"
    /\ mGenCompSymbVar = MaxItems + 1 /\ mCurrentSymbVarItem = 1
    /\ mCurrentSymbolToPlace.inst = 2 /\ mCurrentSymbolToPlace.pos = 2

\* C7 (as claimed): process() of a graphics scene event returns
\* ForceStayInState, except for the wheel event (PassToParentState); stated
\* here for the calls in which nothing fails.
C7_SceneEventsAccepted ==
    (/\ lastCall.op = "process" /\ lastCall.type = "SchematicSceneEvent"
     /\ lastCall.raised = "none" /\ fault = "none")
    => ret = (IF lastCall.q = "GraphicsSceneWheel"
              THEN "PassToParentState" ELSE "ForceStayInState")

\* C10 (as claimed): after entry() or process() returned with the state
\* active, an active undo command implies that the symbol to place and its
\* edit command exist, and no mouse event meets a null edit command.
C10_ActiveCommandHasEditCommand ==
    /\ (active /\ lastCall.op \in {"entry", "process"} /\ mIsUndoCmdActive)
          => (~mCurrentSymbolEditCommand.null /\ ~mCurrentSymbolToPlace.null)
    /\ fault \notin {"null edit command:187", "null deref:205", "null deref:256"}

\* C11 (as claimed): while the state is active, an Edit_RotateCW or
\* Edit_RotateCCW event finds the edit command and the symbol to place, also
\* after an AbortCommand whose chooser dialog was cancelled; no rotate event
\* dereferences a null pointer (lines 109 and 112).
C11_RotateFindsEditCommand ==
    (lastCall.op = "process" /\ lastCall.type \in {"Edit_RotateCW", "Edit_RotateCCW"})
    => /\ fault = "none" /\ ret = "ForceStayInState"
       /\ ~mCurrentSymbolEditCommand.null /\ ~mCurrentSymbolToPlace.null

\* C12 (as claimed): entry() with the UUIDs of a generic component that is not
\* in the project's library, or of a symbol variant the generic component
\* does not have, fails with a LogicError thrown by startAddingComponent; no
\* command group has been begun and mIsUndoCmdActive is unchanged.
GivenNotFound(ev) ==
    /\ ev.type = "StartAddComponent" /\ ev.gc # 0 /\ ev.sv # 0
    /\ (getGenComp(ev.gc) = 0 \/ getSymbolVariantByUuid(ev.sv) = 0)
C12_NotFoundIsLogicError ==
    [][\A in \in EntryInputs :
          (GivenNotFound(in[1]) /\ ~mIsUndoCmdActive /\ Entry(in[1], in[2]))
          => /\ fault' = "none" /\ ret' = "false"
             /\ lastCall'.raised = "LogicError"
             /\ UNCHANGED <<undoActive, undoGroup, mIsUndoCmdActive, instCount>>]_vars

(***************************************************************************)
(* Properties of FootprintPad, checked under PadSpec.                      *)
(***************************************************************************)
ValidAttributes(p) ==
    p.mPackagePadUuid # 0 /\ p.mWidth > 0 /\ p.mHeight > 0 /\ p.mDrillDiameter >= 0

\* C8: serialize() of a pad with valid attributes succeeds, and the pad
\* constructed from the node it wrote is constructed without an exception
\* and equals the pad under operator==, member by member.
C8_SerializeRoundTrip ==
    /\ (padPc = "threw") => ~ValidAttributes(pad)
    /\ (padPc = "loaded") =>
          /\ ValidAttributes(pad)
          /\ loaded.exc = "none"
          /\ PadEquals(loaded.pad, pad)
          /\ loaded.pad = pad
C8_Witness ==
    /\ padPc = "loaded" /\ loaded.exc = "none"
    /\ pad.mShape = "OCTAGON" /\ pad.mBoardSide = "THT"
    /\ pad.mWidth = 1 /\ pad.mHeight = 2 /\ pad.mDrillDiameter = 1
    /\ pad.mPosition = [x |-> 0, y |-> 1] /\ pad.mRotation = 90

\* C13 (as claimed): while a graphics item is registered, it holds the pad's
\* current position, rotation, outline shape and layer name after every
\* operation that changes them: after every setter and after operator=.
C13_GraphicsItemNotified ==
    ~padItem.null => padItem = ItemOf(pad)

\* C9: the attributes are valid exactly when the UUID is not null, width and
\* height are positive and the drill diameter is not negative, whatever the
\* shape and the board side; serialize() throws LogicError and appends
\* nothing exactly when they are invalid; the constructor from an
\* S-expression throws LogicError when the attributes it read are invalid;
\* a pad with invalid attributes exists until then (no setter rejects it).
C9_ValidityAndRejection ==
    /\ checkAttributesValidity(pad) <=> ValidAttributes(pad)
    /\ \A shape \in Shapes, side \in BoardSides :
          checkAttributesValidity([pad EXCEPT !.mShape = shape, !.mBoardSide = side])
          <=> checkAttributesValidity(pad)
    /\ (padPc = "threw") => (~ValidAttributes(pad) /\ root = <<>>)
    /\ (padPc = "serialized") => (ValidAttributes(pad) /\ Len(root) = 7)
    /\ (padPc = "parsed" /\ ~ValidAttributes(pad)) =>
          (loaded.exc = "LogicError" /\ loaded.pad = pad)
    /\ (padPc = "parsed" /\ ValidAttributes(pad)) => loaded.exc = "none"
\* serialize() refused a pad whose drill diameter is negative
C9_Witness ==
    /\ padPc = "threw" /\ root = <<>>
    /\ pad.mPackagePadUuid # 0 /\ pad.mWidth > 0 /\ pad.mHeight > 0
    /\ pad.mDrillDiameter < 0 /\ ~padItem.null
\* the constructor refused a file's node with a width of zero
C9_WitnessParsed ==
    padPc = "parsed" /\ loaded.exc = "LogicError" /\ pad.mWidth = 0

====
